---------------------------- MODULE Spec2Model ----------------------------
(***************************************************************************)
(* Model of the job database engine (utils/jobdatabase/engine.py):         *)
(* JobDatabaseEngine, a would-be singleton that keeps the accepted jobs in *)
(* one JSON document and guards its file accesses with a threading.Lock.   *)
(*                                                                         *)
(* Threads call JobDatabaseEngine() and then save / get_item / update /    *)
(* remove / reset on the instance they obtained.  Every access to shared   *)
(* state (the class attribute, the instance's mutex attribute, a Lock, the *)
(* document) is one step, so that every interleaving of the threads is     *)
(* explored.                                                               *)
(*                                                                         *)
(* Task ids are numbers standing for the strings of the JSON ("R1", ...).  *)
(***************************************************************************)
EXTENDS Integers, Sequences, FiniteSets, TLC

\* ------------------------------------------------------------------------
\* Bounds of the model
\* ------------------------------------------------------------------------
NumProcs == 2
MaxCalls == 3
MaxInits == 2
MaxFaults == 1
NumTasks == 3
MaxEdges == 3

Procs == 1..NumProcs
TaskIds == 1..NumTasks
None == "None"

\* ------------------------------------------------------------------------
\* Jobs and the validator chain
\* ------------------------------------------------------------------------
Range(s) == {s[i] : i \in DOMAIN s}

\* The tasks a job's adjacency structure names: its keys and their targets.
Nodes(adj) == (DOMAIN adj) \cup UNION {Range(adj[k]) : k \in DOMAIN adj}

\* Directed edges of the adjacency structure.
Edges(adj) == UNION {{<<k, t>> : t \in Range(adj[k])} : k \in DOMAIN adj}

RECURSIVE ReachFrom(_, _)
\* Least set containing `seen` and closed under the edge relation E.
ReachFrom(seen, E) ==
    LET more == {e[2] : e \in {x \in E : x[1] \in seen}} \ seen
    IN  IF more = {} THEN seen ELSE ReachFrom(seen \cup more, E)

\* GraphAnalyzer.is_single_component: one weakly connected component
\* (edges taken as undirected); the empty graph is trivially one.
is_single_component(adj) ==
    LET N == Nodes(adj)
        U == Edges(adj) \cup {<<e[2], e[1]>> : e \in Edges(adj)}
    IN  N = {} \/ (LET s == CHOOSE n \in N : TRUE IN ReachFrom({s}, U) = N)

\* slip: only an edge from a task to itself is taken for a cycle
has_cycle_selfLoopOnly(adj) == \E e \in Edges(adj) : e[1] = e[2]

\* GraphAnalyzer.has_cycle: some task reaches itself along one or more edges.
has_cycle(adj) ==
    \E n \in Nodes(adj) :
        n \in ReachFrom({e[2] : e \in {x \in Edges(adj) : x[1] = n}}, Edges(adj))

\* slip: a destination reached twice counts, whichever the sources
has_duplicate_edge_anySource(adj) ==
    \E k1, k2 \in DOMAIN adj :
        \E i \in DOMAIN adj[k1], j \in DOMAIN adj[k2] :
            <<k1, i>> # <<k2, j>> /\ adj[k1][i] = adj[k2][j]

\* GraphAnalyzer.has_duplicate_edge: a source lists one destination twice.
has_duplicate_edge(adj) ==
    \E k \in DOMAIN adj :
        \E i, j \in DOMAIN adj[k] : i # j /\ adj[k][i] = adj[k][j]

\* TaskSchemaValidator: the field each task kind requires.
RequiredField(task_name) ==
    CASE task_name = "read" -> "filename"
      [] task_name = "write" -> "filename"
      [] task_name = "drop" -> "column_name"
      [] OTHER -> None

\* slip: any field at all satisfies the schema
TaskSchemaValid_anyField(bag) ==
    /\ RequiredField(bag.task_name) # None
    /\ bag.fields # {}

TaskSchemaValid(bag) ==
    /\ RequiredField(bag.task_name) # None
    /\ RequiredField(bag.task_name) \in bag.fields

\* slip: the chain is built without its key-set member
get_job_validator_chain_noKeys(job) ==
    IF ~is_single_component(job.job_list)
    THEN [valid |-> FALSE, err |-> "more than one graph"]
    ELSE IF has_cycle(job.job_list)
    THEN [valid |-> FALSE, err |-> "cycle"]
    ELSE IF has_duplicate_edge(job.job_list)
    THEN [valid |-> FALSE, err |-> "duplicate edge"]
    ELSE IF \E t \in DOMAIN job.property : ~TaskSchemaValid(job.property[t])
    THEN [valid |-> FALSE, err |-> "bad property"]
    ELSE [valid |-> TRUE, err |-> None]

\* ValidatorChain: the members in their fixed order, stopping at the first
\* failure; the result is the pair (valid, error).
get_job_validator_chain(job) ==
    IF DOMAIN job.job_list # DOMAIN job.property
    THEN [valid |-> FALSE, err |-> "property keys do not match"]
    ELSE IF ~is_single_component(job.job_list)
    THEN [valid |-> FALSE, err |-> "more than one graph"]
    ELSE IF has_cycle(job.job_list)
    THEN [valid |-> FALSE, err |-> "cycle"]
    ELSE IF has_duplicate_edge(job.job_list)
    THEN [valid |-> FALSE, err |-> "duplicate edge"]
    ELSE IF \E t \in DOMAIN job.property : ~TaskSchemaValid(job.property[t])
    THEN [valid |-> FALSE, err |-> "bad property"]
    ELSE [valid |-> TRUE, err |-> None]

\* ------------------------------------------------------------------------
\* Sample submissions of the concurrent specification
\* ------------------------------------------------------------------------
ReadBag == [task_name |-> "read", fields |-> {"filename"}]
WriteBag == [task_name |-> "write", fields |-> {"filename"}]

NoRows == [t \in {} |-> <<>>]
NoBags == [t \in {} |-> ReadBag]
EmptyJob == [job_name |-> "Job1", job_list |-> NoRows, property |-> NoBags]

\* R1 -> W1
JobA ==
    [job_name |-> "Job1",
     job_list |-> (1 :> <<2>>) @@ (2 :> <<>>),
     property |-> (1 :> ReadBag) @@ (2 :> WriteBag)]

\* R1 -> W1, same graph under another name
JobB == [JobA EXCEPT !.job_name = "Job2"]

\* R1 -> W1 and, apart from them, R3: two graphs
JobTwoGraphs ==
    [job_name |-> "Job3",
     job_list |-> (1 :> <<2>>) @@ (2 :> <<>>) @@ (3 :> <<>>),
     property |-> (1 :> ReadBag) @@ (2 :> WriteBag) @@ (3 :> ReadBag)]

SampleJobs == {JobA, JobB, JobTwoGraphs}

\* job ids asked of get_item / update / remove
MaxJobId == 2
JobIds == 1..MaxJobId

\* ------------------------------------------------------------------------
\* State
\* ------------------------------------------------------------------------
VARIABLES
    jobdatabase_instance, \* the class attribute: an instance id, 0 = not set
    mutex,                \* mutex[i]: the Lock of instance i (0 = not set yet)
    held,                 \* held[l]: the thread holding Lock l, 0 = free
    fstate,               \* the document: "ok", "empty" (truncated), "garbled"
    jobs,                 \* the document's 'jobs' list when fstate = "ok"
    pc,                   \* pc[p]: where thread p stands
    self,                 \* self[p]: the instance thread p obtained, 0 = none
    lk,                   \* lk[p]: the Lock p's running operation decorated with
    job,                  \* job[p]: the job of p's save
    job_id,               \* job_id[p]: the 'job_id' key of that job, 0 = absent
    arg,                  \* arg[p]: the job_id of p's get_item/update/remove
    storage,              \* storage[p]: the list p's save loaded and extended
    returned,             \* the call that ended last: who, op, what it returned
                          \* and the 'job_id' key its job was left with
    draft,                \* the submission under construction (SpecV)
    calls, inits, faults, \* operations started, constructions, I/O faults
    assigned,             \* the saves that returned an id, in order of return,
                          \* each with its id, its job and its ticket
    resetAt,              \* Len(assigned) at the last step of a reset, -1 = none
    ticket,               \* ticket[p]: the rank of p's save among the saves
                          \* in the order they took their lock, 0 = none taken
    phase                 \* tag "reset": thread `who` runs or ran a reset with
                          \* no other call under way; "follow": and `who` then
                          \* one save or get_item, again alone; else "none"

vars == <<jobdatabase_instance, mutex, held, fstate, jobs, pc, self, lk,
          job, job_id, arg, storage, returned, draft, calls, inits, faults, assigned,
          resetAt, ticket, phase>>

shared == <<jobdatabase_instance, mutex, held, fstate, jobs>>
ghost == <<assigned, resetAt, ticket>>
submitted == <<job, job_id>>

\* what a call may leave behind: (value, success, error) with the id or the
\* record as value, None, or an exception
Tuple(id, rec, ok, err) ==
    [ret |-> "tuple", id |-> id, rec |-> rec, ok |-> ok, err |-> err]
Nothing == [ret |-> "nothing", id |-> 0, rec |-> <<>>, ok |-> FALSE, err |-> None]
Raised(e) == [ret |-> "raised", id |-> 0, rec |-> <<>>, ok |-> FALSE, err |-> e]

\* thread p's call of operation o ended with outcome r, its job carrying key k
Ended(p, o, r, k) == [who |-> p, op |-> o, out |-> r, job_id |-> k]
NoCall == Ended(0, "none", Nothing, 0)

NoPhase == [tag |-> "none", who |-> 0]

Init ==
    /\ jobdatabase_instance = 0
    /\ mutex = <<>>
    /\ held = <<>>
    /\ fstate = "ok"
    /\ jobs = <<>>
    /\ pc = [p \in Procs |-> "idle"]
    /\ self = [p \in Procs |-> 0]
    /\ lk = [p \in Procs |-> 0]
    /\ job = [p \in Procs |-> EmptyJob]
    /\ job_id = [p \in Procs |-> 0]
    /\ arg = [p \in Procs |-> 0]
    /\ storage = [p \in Procs |-> <<>>]
    /\ returned = NoCall
    /\ draft = EmptyJob
    /\ calls = 0
    /\ inits = 0
    /\ faults = 0
    /\ assigned = <<>>
    /\ resetAt = -1
    /\ ticket = [p \in Procs |-> 0]
    /\ phase = NoPhase

\* ------------------------------------------------------------------------
\* JobDatabaseEngine(): __new__ and __init__
\* ------------------------------------------------------------------------
\* __new__: the hasattr test
NewCheck(p) ==
    /\ pc[p] = "idle"
    /\ inits < MaxInits
    /\ inits' = inits + 1
    /\ pc' = [pc EXCEPT ![p] = IF jobdatabase_instance = 0
                               THEN "new_create" ELSE "new_return"]
    /\ UNCHANGED <<shared, self, lk, submitted, arg, storage, returned, draft,
                   calls, faults, ghost, phase>>

\* __new__: a new object is made and stored in the class attribute
NewCreate(p) ==
    /\ pc[p] = "new_create"
    /\ mutex' = Append(mutex, 0)
    /\ jobdatabase_instance' = Len(mutex) + 1
    /\ pc' = [pc EXCEPT ![p] = "new_return"]
    /\ UNCHANGED <<held, fstate, jobs, self, lk, submitted, arg, storage, returned,
                   draft, calls, inits, faults, ghost, phase>>

\* __new__: return cls.jobdatabase_instance
NewReturn(p) ==
    /\ pc[p] = "new_return"
    /\ self' = [self EXCEPT ![p] = jobdatabase_instance]
    /\ pc' = [pc EXCEPT ![p] = "init"]
    /\ UNCHANGED <<shared, lk, submitted, arg, storage, returned, draft, calls,
                   inits, faults, ghost, phase>>

\* __init__: self.mutex = Lock(), on whatever instance __new__ returned
InitMutex(p) ==
    /\ pc[p] = "init"
    /\ held' = Append(held, 0)
    /\ mutex' = [mutex EXCEPT ![self[p]] = Len(held) + 1]
    /\ pc' = [pc EXCEPT ![p] = "idle"]
    /\ UNCHANGED <<jobdatabase_instance, fstate, jobs, self, lk, submitted, arg,
                   storage, returned, draft, calls, inits, faults, ghost, phase>>

\* ------------------------------------------------------------------------
\* Helpers: the lock decorator, the document, the ghost bookkeeping
\* ------------------------------------------------------------------------
\* lock_while_using_file(mutex): acquire before the wrapped function ...
LockAcquire(p) ==
    /\ held[lk[p]] = 0
    /\ held' = [held EXCEPT ![lk[p]] = p]

\* slip: the decorator returns without releasing
LockRelease_skip(p) == held' = held

\* ... and release on every way out of it
LockRelease(p) == held' = [held EXCEPT ![lk[p]] = 0]

\* An I/O fault may strike while the budget lasts.
FaultChoices == IF faults < MaxFaults THEN {FALSE, TRUE} ELSE {FALSE}

IsPrefix(a, b) == Len(a) =< Len(b) /\ \A i \in DOMAIN a : a[i] = b[i]

\* JobDatabaseWrite: the file is truncated when opened and the new text is
\* written from offset 0 when the handle is flushed.  The text replaces what
\* is there: an empty file or a shorter text wholly, a longer text only at
\* its beginning, which leaves an unreadable mixture.
WriteOutcomes(doc) ==
    IF fstate = "empty" \/ (fstate = "ok" /\ IsPrefix(jobs, doc))
    THEN {[fstate |-> "ok", jobs |-> doc]}
    ELSE IF fstate = "ok" /\ IsPrefix(doc, jobs)
    THEN {[fstate |-> "garbled", jobs |-> <<>>]}
    ELSE {[fstate |-> "ok", jobs |-> doc], [fstate |-> "garbled", jobs |-> <<>>]}

\* search_job_by_job_id(storage, job_id): (is_exists, idx), searching linearly
search_job_by_job_id(st, id) ==
    LET hits == {i \in DOMAIN st : st[i].job_id = id}
    IN  IF hits = {} THEN [is_exists |-> FALSE, idx |-> 0]
        ELSE [is_exists |-> TRUE,
              idx |-> CHOOSE i \in hits : \A j \in hits : i =< j]

\* the locals of a finished call are gone
Forget(p) ==
    /\ lk' = [lk EXCEPT ![p] = 0]
    /\ job' = [job EXCEPT ![p] = EmptyJob]
    /\ job_id' = [job_id EXCEPT ![p] = 0]
    /\ arg' = [arg EXCEPT ![p] = 0]

OthersIdle(p) == \A q \in Procs \ {p} : pc[q] = "idle"

\* phase after thread p starts an operation of the given kind
PhaseAt(p, kind) ==
    IF kind = "reset" /\ OthersIdle(p) THEN [tag |-> "reset", who |-> p]
    ELSE IF phase.tag = "reset" /\ OthersIdle(p) /\ kind \in {"save", "get_item"}
    THEN [tag |-> "follow", who |-> p]
    ELSE NoPhase

\* ------------------------------------------------------------------------
\* reset
\* ------------------------------------------------------------------------
\* with JobDatabaseWrite() as w: the file is opened (no lock is taken)
ResetOpen(p) ==
    /\ pc[p] = "idle" /\ self[p] # 0
    /\ calls < MaxCalls
    /\ calls' = calls + 1
    /\ fstate' = "empty"
    /\ jobs' = <<>>
    /\ pc' = [pc EXCEPT ![p] = "reset_dump"]
    /\ resetAt' = Len(assigned)
    /\ phase' = PhaseAt(p, "reset")
    /\ UNCHANGED <<jobdatabase_instance, mutex, held, self, lk, submitted, arg,
                   storage, returned, draft, inits, faults, assigned, ticket>>

\* slip: the with block ends without the dump, the file stays truncated
ResetDump_noDump(p) ==
    /\ pc[p] = "reset_dump"
    /\ returned' = Ended(p, "reset", Nothing, 0)
    /\ pc' = [pc EXCEPT ![p] = "idle"]
    /\ resetAt' = Len(assigned)
    /\ UNCHANGED <<shared, self, lk, submitted, arg, storage, draft, calls,
                   inits, faults, assigned, ticket, phase>>

\* json.dump({'jobs': []}, w) and the end of the with block
ResetDump(p) ==
    /\ pc[p] = "reset_dump"
    /\ \E f \in FaultChoices :
        IF f
        THEN /\ faults' = faults + 1
             /\ returned' = Ended(p, "reset", Raised("IOError"), 0)
             /\ phase' = NoPhase
             /\ UNCHANGED <<fstate, jobs>>
        ELSE /\ \E out \in WriteOutcomes(<<>>) :
                    /\ fstate' = out.fstate
                    /\ jobs' = out.jobs
             /\ returned' = Ended(p, "reset", Nothing, 0)
             /\ UNCHANGED <<faults, phase>>
    /\ pc' = [pc EXCEPT ![p] = "idle"]
    /\ resetAt' = Len(assigned)
    /\ UNCHANGED <<jobdatabase_instance, mutex, held, self, lk, submitted, arg,
                   storage, draft, calls, inits, assigned, ticket>>

\* ------------------------------------------------------------------------
\* save
\* ------------------------------------------------------------------------
\* slip: `and` for `or`, with the error test negated
SaveRejects_andNoErr(v) == ~v.valid /\ v.err = None

\* slip: the `not` before is_valid left out
SaveRejects_inverted(v) == v.valid \/ v.err = None

\* the decision of save's return statement: reject, or call __save
SaveRejects(v) == ~v.valid \/ v.err # None

\* save(job): __save is decorated with self.mutex as it is now, the
\* validator chain runs, and a rejected job is answered at once
SaveStart(p, j) ==
    /\ pc[p] = "idle" /\ self[p] # 0
    /\ calls < MaxCalls
    /\ calls' = calls + 1
    /\ phase' = PhaseAt(p, "save")
    /\ LET v == get_job_validator_chain(j) IN
        IF SaveRejects(v)
        THEN /\ returned' = Ended(p, "save", Tuple(0, <<>>, FALSE, v.err), 0)
             /\ UNCHANGED <<pc, job, lk>>
        ELSE /\ job' = [job EXCEPT ![p] = j]
             /\ lk' = [lk EXCEPT ![p] = mutex[self[p]]]
             /\ pc' = [pc EXCEPT ![p] = "save_acquire"]
             /\ UNCHANGED returned
    /\ UNCHANGED <<shared, self, job_id, arg, storage, draft, inits, faults,
                   ghost>>

\* a thread submits one of the sample jobs
SaveCall(p) == \E j \in SampleJobs : SaveStart(p, j)

\* the rank of the next save to take its lock: one more than the rank of
\* every save that took a lock before and returned an id or is under way
NextTicket ==
    LET taken == {assigned[i].acq : i \in DOMAIN assigned}
                    \cup {ticket[q] : q \in Procs}
    IN  1 + (CHOOSE m \in taken \cup {0} : \A n \in taken : n =< m)

\* __save(): the decorator takes the lock
SaveAcquire(p) ==
    /\ pc[p] = "save_acquire"
    /\ LockAcquire(p)
    /\ ticket' = [ticket EXCEPT ![p] = NextTicket]
    /\ pc' = [pc EXCEPT ![p] = "save_load"]
    /\ UNCHANGED <<jobdatabase_instance, mutex, fstate, jobs, self, lk,
                   submitted, arg, storage, returned, draft, calls, inits,
                   faults, assigned, resetAt, phase>>

\* slip: one more than the first record's id
NewJobId_first(st) == IF Len(st) = 0 THEN 1 ELSE st[1].job_id + 1

\* slip: the number of records taken for the next id
NewJobId_count(st) == IF Len(st) = 0 THEN 1 ELSE Len(st)

\* the id the loaded list calls for
NewJobId(st) == IF Len(st) = 0 THEN 1 ELSE st[Len(st)].job_id + 1

\* with JobDatabaseRead() as r: storage = json.load(r); the new id is set in
\* the job and the job is appended.  A document that cannot be read raises,
\* the decorator releases the lock and the exception leaves save.
SaveLoad(p) ==
    /\ pc[p] = "save_load"
    /\ \E f \in FaultChoices :
        /\ f => fstate = "ok"
        /\ IF f \/ fstate # "ok"
           THEN /\ faults' = faults + (IF f THEN 1 ELSE 0)
                /\ LockRelease(p)
                /\ returned' = Ended(p, "save", Raised("IOError"), job_id[p])
                /\ pc' = [pc EXCEPT ![p] = "idle"]
                /\ Forget(p)
                /\ ticket' = [ticket EXCEPT ![p] = 0]
                /\ UNCHANGED storage
           ELSE /\ job_id' = [job_id EXCEPT ![p] = NewJobId(jobs)]
                /\ storage' = [storage EXCEPT ![p] =
                        Append(jobs, [job_id |-> NewJobId(jobs), job |-> job[p]])]
                /\ pc' = [pc EXCEPT ![p] = "save_open"]
                /\ UNCHANGED <<held, returned, faults, lk, job, arg, ticket>>
    /\ UNCHANGED <<jobdatabase_instance, mutex, fstate, jobs, self, draft, calls,
                   inits, assigned, resetAt, phase>>

\* with JobDatabaseWrite() as w: the file is opened
SaveOpen(p) ==
    /\ pc[p] = "save_open"
    /\ fstate' = "empty"
    /\ jobs' = <<>>
    /\ pc' = [pc EXCEPT ![p] = "save_dump"]
    /\ UNCHANGED <<jobdatabase_instance, mutex, held, self, lk, submitted, arg,
                   storage, returned, draft, calls, inits, faults, ghost, phase>>

\* json.dump(storage, w), the end of the with block, return new_job_id; the
\* decorator releases the lock and save returns (new_job_id, True, None).
\* A failing write raises and leaves the file as it is.
SaveDump(p) ==
    /\ pc[p] = "save_dump"
    /\ LockRelease(p)
    /\ pc' = [pc EXCEPT ![p] = "idle"]
    /\ \E f \in FaultChoices :
        IF f
        THEN /\ faults' = faults + 1
             /\ returned' = Ended(p, "save", Raised("IOError"), job_id[p])
             /\ UNCHANGED <<fstate, jobs, assigned, resetAt>>
        ELSE LET new_job_id == job_id[p] IN
             /\ \E out \in WriteOutcomes(storage[p]) :
                    /\ fstate' = out.fstate
                    /\ jobs' = out.jobs
             /\ returned' = Ended(p, "save",
                                  Tuple(new_job_id, <<>>, TRUE, None), job_id[p])
             /\ assigned' = Append(assigned, [id |-> new_job_id, job |-> job[p],
                                               acq |-> ticket[p]])
             /\ UNCHANGED <<faults, resetAt>>
    /\ storage' = [storage EXCEPT ![p] = <<>>]
    /\ ticket' = [ticket EXCEPT ![p] = 0]
    /\ Forget(p)
    /\ UNCHANGED <<jobdatabase_instance, mutex, self, draft, calls, inits,
                   phase>>

\* ------------------------------------------------------------------------
\* get_item
\* ------------------------------------------------------------------------
\* get_item(job_id): __get_item is decorated with self.mutex as it is now
GetCall(p) ==
    /\ pc[p] = "idle" /\ self[p] # 0
    /\ calls < MaxCalls
    /\ calls' = calls + 1
    /\ \E k \in JobIds : arg' = [arg EXCEPT ![p] = k]
    /\ lk' = [lk EXCEPT ![p] = mutex[self[p]]]
    /\ pc' = [pc EXCEPT ![p] = "get_acquire"]
    /\ phase' = PhaseAt(p, "get_item")
    /\ UNCHANGED <<shared, self, submitted, storage, returned, draft, inits,
                   faults, ghost>>

\* __get_item(): the decorator takes the lock
GetAcquire(p) ==
    /\ pc[p] = "get_acquire"
    /\ LockAcquire(p)
    /\ pc' = [pc EXCEPT ![p] = "get_load"]
    /\ UNCHANGED <<jobdatabase_instance, mutex, fstate, jobs, self, lk,
                   submitted, arg, storage, returned, draft, calls, inits,
                   faults, ghost, phase>>

\* the document is loaded and searched, the decorator releases the lock, and
\* get_item builds its tuple; an exception of the load is caught and returned
GetLoad(p) ==
    /\ pc[p] = "get_load"
    /\ LockRelease(p)
    /\ pc' = [pc EXCEPT ![p] = "idle"]
    /\ \E f \in FaultChoices :
        /\ f => fstate = "ok"
        /\ faults' = faults + (IF f THEN 1 ELSE 0)
        /\ IF f \/ fstate # "ok"
           THEN returned' = Ended(p, "get_item",
                                  Tuple(0, <<>>, FALSE, "IOError"), 0)
           ELSE LET found == search_job_by_job_id(jobs, arg[p]) IN
                returned' = Ended(p, "get_item",
                    IF found.is_exists
                    THEN Tuple(0, <<jobs[found.idx]>>, TRUE, None)
                    ELSE Tuple(0, <<>>, FALSE, "ValueError"), 0)
    /\ Forget(p)
    /\ UNCHANGED <<jobdatabase_instance, mutex, fstate, jobs, self, storage,
                   draft, calls, inits, ghost, phase>>

\* ------------------------------------------------------------------------
\* update and remove
\* ------------------------------------------------------------------------
\* the arguments play no part: the decorated function passes
NoopCall(p, kind, at) ==
    /\ pc[p] = "idle" /\ self[p] # 0
    /\ calls < MaxCalls
    /\ calls' = calls + 1
    /\ lk' = [lk EXCEPT ![p] = mutex[self[p]]]
    /\ pc' = [pc EXCEPT ![p] = at]
    /\ phase' = PhaseAt(p, kind)
    /\ UNCHANGED <<shared, self, submitted, arg, storage, returned, draft,
                   inits, faults, ghost>>

NoopAcquire(p, at, to) ==
    /\ pc[p] = at
    /\ LockAcquire(p)
    /\ pc' = [pc EXCEPT ![p] = to]
    /\ UNCHANGED <<jobdatabase_instance, mutex, fstate, jobs, self, lk,
                   submitted, arg, storage, returned, draft, calls, inits,
                   faults, ghost, phase>>

\* slip: the decorated function empties the collection where the code passes
NoopRelease_clears(p, kind, at) ==
    /\ pc[p] = at
    /\ LockRelease(p)
    /\ jobs' = <<>>
    /\ returned' = Ended(p, kind, Nothing, 0)
    /\ pc' = [pc EXCEPT ![p] = "idle"]
    /\ Forget(p)
    /\ UNCHANGED <<jobdatabase_instance, mutex, fstate, self, storage,
                   draft, calls, inits, faults, ghost, phase>>

\* slip: the call returns with the lock still taken
NoopRelease_keepLock(p, kind, at) ==
    /\ pc[p] = at
    /\ returned' = Ended(p, kind, Nothing, 0)
    /\ pc' = [pc EXCEPT ![p] = "idle"]
    /\ Forget(p)
    /\ UNCHANGED <<shared, self, storage, draft, calls, inits, faults, ghost,
                   phase>>

NoopRelease(p, kind, at) ==
    /\ pc[p] = at
    /\ LockRelease(p)
    /\ returned' = Ended(p, kind, Nothing, 0)
    /\ pc' = [pc EXCEPT ![p] = "idle"]
    /\ Forget(p)
    /\ UNCHANGED <<jobdatabase_instance, mutex, fstate, jobs, self, storage,
                   draft, calls, inits, faults, ghost, phase>>

\* update(job_id, updated_data): __update is decorated and called; it passes
UpdateCall(p) == NoopCall(p, "update", "update_acquire")
UpdateAcquire(p) == NoopAcquire(p, "update_acquire", "update_pass")
UpdatePass(p) == NoopRelease(p, "update", "update_pass")

\* remove(job_id): likewise
RemoveCall(p) == NoopCall(p, "remove", "remove_acquire")
RemoveAcquire(p) == NoopAcquire(p, "remove_acquire", "remove_pass")
RemovePass(p) == NoopRelease(p, "remove", "remove_pass")

\* ------------------------------------------------------------------------
\* The concurrent specification
\* ------------------------------------------------------------------------
Next ==
    \E p \in Procs :
        \/ NewCheck(p) \/ NewCreate(p) \/ NewReturn(p) \/ InitMutex(p)
        \/ ResetOpen(p) \/ ResetDump(p)
        \/ SaveCall(p) \/ SaveAcquire(p) \/ SaveLoad(p) \/ SaveOpen(p)
        \/ SaveDump(p)
        \/ GetCall(p) \/ GetAcquire(p) \/ GetLoad(p)
        \/ UpdateCall(p) \/ UpdateAcquire(p) \/ UpdatePass(p)
        \/ RemoveCall(p) \/ RemoveAcquire(p) \/ RemovePass(p)

Spec == Init /\ [][Next]_vars

\* The steps of thread p that follow from a call already made: whether to
\* call is the caller's choice, but a thread that is inside a constructor or
\* an operation is run by the scheduler whenever it can take its next step.
Continue(p) ==
    \/ NewCreate(p) \/ NewReturn(p) \/ InitMutex(p)
    \/ ResetDump(p)
    \/ SaveAcquire(p) \/ SaveLoad(p) \/ SaveOpen(p) \/ SaveDump(p)
    \/ GetAcquire(p) \/ GetLoad(p)
    \/ UpdateAcquire(p) \/ UpdatePass(p)
    \/ RemoveAcquire(p) \/ RemovePass(p)

\* the same system under a scheduler that lets no runnable thread wait forever
SpecFair == Init /\ [][Next]_vars /\ \A p \in Procs : WF_vars(Continue(p))

\* ------------------------------------------------------------------------
\* The submission specification: one caller builds a job and saves it
\* ------------------------------------------------------------------------
DropBag == [task_name |-> "drop", fields |-> {"column_name"}]

\* the property bags a built job draws from
BagChoices ==
    {ReadBag, WriteBag, DropBag,
     [task_name |-> "read", fields |-> {"column_name"}],
     [task_name |-> "read", fields |-> {"filename", "column_name"}],
     [task_name |-> "write", fields |-> {}],
     [task_name |-> "drop", fields |-> {"filename"}],
     [task_name |-> "copy", fields |-> {"filename"}]}

\* the engine has been constructed and every thread holds it
InitBuilt ==
    /\ jobdatabase_instance = 1
    /\ mutex = <<1>>
    /\ held = <<0>>
    /\ fstate = "ok"
    /\ jobs = <<>>
    /\ pc = [p \in Procs |-> "idle"]
    /\ self = [p \in Procs |-> 1]
    /\ lk = [p \in Procs |-> 0]
    /\ job = [p \in Procs |-> EmptyJob]
    /\ job_id = [p \in Procs |-> 0]
    /\ arg = [p \in Procs |-> 0]
    /\ storage = [p \in Procs |-> <<>>]
    /\ returned = NoCall
    /\ draft = EmptyJob
    /\ calls = 0
    /\ inits = 0
    /\ faults = 0
    /\ assigned = <<>>
    /\ resetAt = -1
    /\ ticket = [p \in Procs |-> 0]
    /\ phase = NoPhase

engine == <<shared, pc, self, lk, job, job_id, arg, storage, returned,
            calls, inits, faults, assigned, resetAt, ticket, phase>>

RECURSIVE SumLen(_, _)
SumLen(adj, ks) ==
    IF ks = {} THEN 0
    ELSE LET k == CHOOSE x \in ks : TRUE
         IN  Len(adj[k]) + SumLen(adj, ks \ {k})

EdgeCount(adj) == SumLen(adj, DOMAIN adj)

\* Every task has a property entry and every entry is the plain read bag.
Plain ==
    /\ DOMAIN draft.property = DOMAIN draft.job_list
    /\ \A u \in DOMAIN draft.property : draft.property[u] = ReadBag

\* A job is built in one order: its tasks by increasing id, then its edges
\* by increasing source, then at most one property entry is changed.

\* a task enters job_list, with a read property
AddTask(t) ==
    /\ calls = 0
    /\ Plain /\ EdgeCount(draft.job_list) = 0
    /\ \A u \in DOMAIN draft.job_list : u < t
    /\ draft' = [draft EXCEPT
            !.job_list = (t :> <<>>) @@ @,
            !.property = (t :> ReadBag) @@ @]
    /\ UNCHANGED engine

\* task k points to one more task
AddEdge(k, t) ==
    /\ calls = 0
    /\ Plain
    /\ k \in DOMAIN draft.job_list
    /\ \A u \in DOMAIN draft.job_list : u > k => draft.job_list[u] = <<>>
    /\ EdgeCount(draft.job_list) < MaxEdges
    /\ draft' = [draft EXCEPT !.job_list[k] = Append(@, t)]
    /\ UNCHANGED engine

\* the property entry of t is given another bag
SetProperty(t, bag) ==
    /\ calls = 0
    /\ Plain
    /\ bag # ReadBag \/ t \notin DOMAIN draft.property
    /\ draft' = [draft EXCEPT !.property = (t :> bag) @@ @]
    /\ UNCHANGED engine

\* the property entry of t is left out
DelProperty(t) ==
    /\ calls = 0
    /\ Plain
    /\ t \in DOMAIN draft.property
    /\ draft' = [draft EXCEPT
            !.property = [u \in DOMAIN @ \ {t} |-> @[u]]]
    /\ UNCHANGED engine

\* the built job is submitted
SubmitDraft == calls = 0 /\ SaveStart(1, draft)

NextV ==
    \/ \E t \in TaskIds : AddTask(t)
    \/ \E k, t \in TaskIds : AddEdge(k, t)
    \/ \E t \in TaskIds, bag \in BagChoices : SetProperty(t, bag)
    \/ \E t \in TaskIds : DelProperty(t)
    \/ SubmitDraft
    \/ SaveAcquire(1) \/ SaveLoad(1) \/ SaveOpen(1) \/ SaveDump(1)

SpecV == InitBuilt /\ [][NextV]_vars

\* ------------------------------------------------------------------------
\* Properties
\* ------------------------------------------------------------------------
Saving == {"save_acquire", "save_load", "save_open", "save_dump"}

\* pcs at which a thread is between opening the document and being done
\* with it (update and remove: inside the decorated function)
InFileSection ==
    {"save_load", "save_open", "save_dump", "get_load", "reset_dump",
     "update_pass", "remove_pass"}

\* indices of the saves that returned after the last step of any reset
SinceReset == {i \in DOMAIN assigned : i > resetAt}

\* thread p's call of operation o is the one that ended last
JustEnded(p, o) == returned.who = p /\ returned.op = o /\ pc[p] = "idle"

\* C1: N concurrent saves of valid jobs, starting from the empty collection
\* with no reset and no I/O fault, are assigned exactly the ids 1..N, and
\* once they are done the document holds all N jobs under those ids.
C1_ConcurrentSavesGetDistinctIds ==
    (resetAt = -1 /\ faults = 0) =>
        /\ {assigned[i].id : i \in DOMAIN assigned} = 1..Len(assigned)
        /\ (\A p \in Procs : pc[p] \notin Saving) =>
                /\ fstate = "ok"
                /\ Len(jobs) = Len(assigned)
                /\ \A i \in DOMAIN assigned :
                        jobs[assigned[i].id] =
                            [job_id |-> assigned[i].id, job |-> assigned[i].job]

\* C2: no two operations are inside their file-access section at once; in
\* particular no reset is writing while a save is between load and write.
C2_FileAccessIsExclusive ==
    /\ \A p, q \in Procs :
            (p # q /\ pc[p] \in InFileSection) => pc[q] \notin InFileSection
    /\ \A p, q \in Procs :
            pc[p] \in {"save_open", "save_dump"} => pc[q] # "reset_dump"

\* C3: all callers hold the same instance, and all operations under way
\* synchronise on the same lock.
C3_OneInstanceOneLock ==
    /\ \A p, q \in Procs : (self[p] # 0 /\ self[q] # 0) => self[p] = self[q]
    /\ \A p, q \in Procs : (lk[p] # 0 /\ lk[q] # 0) => lk[p] = lk[q]

C5_IdsAreOneToN ==
    fstate = "ok" => \A i \in DOMAIN jobs : jobs[i].job_id = i

C5_Witness ==
    /\ fstate = "ok" /\ Len(jobs) = 2
    /\ Len(assigned) = 3

\* C6: a save of a job the validator chain rejects is over in its first step:
\* it returns (None, False, reason), sets no job_id and leaves the locks,
\* the document and the engine as they were.
C6_RejectedSaveTouchesNothing ==
    [][\A p \in Procs : \A j \in SampleJobs :
        LET v == get_job_validator_chain(j) IN
        (SaveStart(p, j) /\ (~v.valid \/ v.err # None)) =>
            /\ returned' = Ended(p, "save", Tuple(0, <<>>, FALSE, v.err), 0)
            /\ pc'[p] = "idle"
            /\ UNCHANGED <<shared, assigned>>
      ]_vars

C6_Witness ==
    \E p \in Procs :
        /\ JustEnded(p, "save")
        /\ returned.out = Tuple(0, <<>>, FALSE, "more than one graph")
        /\ fstate = "ok" /\ Len(jobs) = 1
        /\ held = [l \in DOMAIN held |-> 0]

\* C7: once a reset that ran with no other call under way has returned, the
\* collection is empty; a get_item that follows it alone answers not found
\* and a save of a valid job that follows it alone is given id 1 (unless an
\* I/O fault strikes that call).
C7_AfterResetEmpty ==
    /\ (phase.tag = "reset" /\ pc[phase.who] = "idle") =>
            (fstate = "ok" /\ jobs = <<>>)
    /\ (phase.tag = "follow" /\ pc[phase.who] = "idle"
            /\ returned.out.err # "IOError") =>
            /\ returned.who = phase.who
            /\ returned.op \in {"get_item", "save"}
            /\ returned.op = "get_item" =>
                    returned.out = Tuple(0, <<>>, FALSE, "ValueError")
            /\ (returned.op = "save" /\ returned.out.ok) =>
                    returned.out.id = 1

C7_Witness ==
    /\ phase.tag = "follow"
    /\ JustEnded(phase.who, "save")
    /\ returned.out = Tuple(1, <<>>, TRUE, None)
    /\ Len(assigned) = 2

\* C8: get_item(k) returns (record, True, None) with the record of id k
\* exactly when the collection holds one, and (None, False, not found)
\* otherwise; and after a save returned k, with no reset since, get_item(k)
\* returns the job that save was given (in the runs without I/O fault).
C8_GetItemReturnsTheSavedJob ==
    [][\A p \in Procs :
        (pc[p] = "get_load" /\ pc'[p] = "idle" /\ faults' = 0) =>
            LET out == returned'.out IN
            /\ out.ok <=>
                    (fstate = "ok" /\ \E i \in DOMAIN jobs : jobs[i].job_id = arg[p])
            /\ out.ok =>
                    /\ out.err = None
                    /\ out.rec[1] \in Range(jobs)
                    /\ out.rec[1].job_id = arg[p]
            /\ (fstate = "ok" /\ ~out.ok) =>
                    out = Tuple(0, <<>>, FALSE, "ValueError")
            /\ \A i \in SinceReset :
                    assigned[i].id = arg[p] =>
                        /\ out.ok
                        /\ out.rec[1].job = assigned[i].job
      ]_vars

\* C9: no storage failure inside save or get_item leaves the call as an
\* exception: the caller always gets a result tuple.
C9_NoExceptionLeavesSaveOrGet ==
    returned.op \in {"save", "get_item"} => returned.out.ret # "raised"

\* some tasks of the graph have no edge, in either direction, to the rest
Disconnected(adj) ==
    \E S \in SUBSET Nodes(adj) :
        /\ S # {} /\ S # Nodes(adj)
        /\ \A e \in Edges(adj) : (e[1] \in S) <=> (e[2] \in S)

\* C10: a job whose tasks form two or more weakly disconnected groups is
\* rejected by save, which returns (None, False, reason) and persists nothing.
C10_DisconnectedJobRejected ==
    (calls = 1 /\ Disconnected(draft.job_list)) =>
        /\ JustEnded(1, "save")
        /\ returned.out.ret = "tuple" /\ ~returned.out.ok
        /\ returned.out.id = 0 /\ returned.out.err # None
        /\ returned.job_id = 0
        /\ fstate = "ok" /\ jobs = <<>>

C10_Witness ==
    /\ calls = 1 /\ Disconnected(draft.job_list)
    /\ Cardinality(DOMAIN draft.job_list) = 3
    /\ EdgeCount(draft.job_list) = 1
    /\ returned.out = Tuple(0, <<>>, FALSE, "more than one graph")

\* the submitted draft was refused: save returned (None, False, reason) at
\* once, the job got no job_id and the document is the empty collection still
DraftRejected ==
    /\ JustEnded(1, "save")
    /\ returned.out.ret = "tuple" /\ ~returned.out.ok
    /\ returned.out.id = 0 /\ returned.out.err # None
    /\ returned.job_id = 0
    /\ fstate = "ok" /\ jobs = <<>>
    /\ assigned = <<>>

\* some tasks each point to one of themselves: following the edges from any
\* of them never ends, which in a finite graph is a directed cycle
Cyclic(adj) ==
    \E S \in SUBSET Nodes(adj) :
        /\ S # {}
        /\ \A n \in S : \E e \in Edges(adj) : e[1] = n /\ e[2] \in S

\* C11: a job whose adjacency has a directed cycle (a self-loop, or a cycle
\* through intermediate tasks) is rejected by save and nothing is persisted.
C11_CyclicJobRejected ==
    (calls = 1 /\ Cyclic(draft.job_list)) => DraftRejected

\* the cycle 1 -> 2 -> 3 -> 1 was submitted and refused as a cycle
C11_Witness ==
    /\ calls = 1
    /\ draft.job_list = (1 :> <<2>>) @@ (2 :> <<3>>) @@ (3 :> <<1>>)
    /\ JustEnded(1, "save")
    /\ returned.out = Tuple(0, <<>>, FALSE, "cycle")

\* a source lists more targets than it has distinct ones
RepeatsTarget(adj) ==
    \E k \in DOMAIN adj : Len(adj[k]) > Cardinality(Range(adj[k]))

\* the submitted draft meets every invariant but, possibly, the one on
\* duplicate edges
ValidButForEdges ==
    /\ DOMAIN draft.job_list = DOMAIN draft.property
    /\ ~Disconnected(draft.job_list)
    /\ ~Cyclic(draft.job_list)
    /\ \A t \in DOMAIN draft.property :
            LET bag == draft.property[t] IN
            \/ bag.task_name \in {"read", "write"} /\ "filename" \in bag.fields
            \/ bag.task_name = "drop" /\ "column_name" \in bag.fields

\* the submitted draft went past validation: the save is under way or gave
\* the job an id
DraftAccepted ==
    \/ pc[1] \in Saving
    \/ JustEnded(1, "save") /\ returned.out.ret = "tuple" /\ returned.out.ok
    \/ JustEnded(1, "save") /\ returned.out.ret = "raised"

C13_KeyMismatchRejected ==
    (calls = 1 /\ DOMAIN draft.job_list # DOMAIN draft.property) => DraftRejected

\* a connected, acyclic job whose second task has no property entry was
\* refused for its keys
C13_Witness ==
    /\ calls = 1
    /\ draft.job_list = (1 :> <<2>>) @@ (2 :> <<>>)
    /\ DOMAIN draft.property = {1}
    /\ JustEnded(1, "save")
    /\ returned.out = Tuple(0, <<>>, FALSE, "property keys do not match")

\* the bag lacks the field its task kind requires, or its kind is unknown
LacksRequired(bag) ==
    \/ bag.task_name \in {"read", "write"} /\ "filename" \notin bag.fields
    \/ bag.task_name = "drop" /\ "column_name" \notin bag.fields
    \/ bag.task_name \notin {"read", "write", "drop"}

\* C14: a job in which some task's property bag lacks the field required by
\* its task_name, or names an unknown task kind, is rejected by save,
\* whatever other fields the bag carries.
C14_BadPropertyRejected ==
    (calls = 1 /\ \E t \in DOMAIN draft.property :
                        LacksRequired(draft.property[t])) => DraftRejected

\* R1 -> W1 where R1 is a read carrying column_name in place of filename
C14_Witness ==
    /\ calls = 1
    /\ draft.job_list = (1 :> <<2>>) @@ (2 :> <<>>)
    /\ draft.property[1] = [task_name |-> "read", fields |-> {"column_name"}]
    /\ JustEnded(1, "save")
    /\ returned.out = Tuple(0, <<>>, FALSE, "bad property")

\* pcs at which a thread is inside the function the decorator wraps
InCritical ==
    {"save_load", "save_open", "save_dump", "get_load", "update_pass",
     "remove_pass"}

\* C15: a lock is held only by a thread that is inside the critical section
\* it took that lock for; once save, get_item, update or remove has returned
\* or raised, whatever the way out, the lock it took is free.
C15_LockFreeAfterEveryExit ==
    /\ \A l \in DOMAIN held :
            held[l] # 0 => (pc[held[l]] \in InCritical /\ lk[held[l]] = l)
    /\ \A p \in Procs :
            pc[p] \notin InCritical => \A l \in DOMAIN held : held[l] # p

\* a save has just raised a storage error out of its critical section, after
\* an earlier save succeeded, and every lock is free
C15_Witness ==
    \E p \in Procs :
        /\ JustEnded(p, "save")
        /\ returned.out = Raised("IOError")
        /\ Len(assigned) = 1
        /\ held # <<>>
        /\ \A l \in DOMAIN held : held[l] = 0

\* thread p is inside save, get_item, update, remove or reset
InOperation(p) ==
    pc[p] \in Saving \cup {"get_acquire", "get_load", "update_acquire",
                           "update_pass", "remove_acquire", "remove_pass",
                           "reset_dump"}

C17_IdOrderIsLockOrder ==
    (resetAt = -1 /\ faults = 0) =>
        \A i, j \in DOMAIN assigned :
            assigned[i].acq < assigned[j].acq => assigned[i].id < assigned[j].id

\* C18: whenever save or get_item loads the document, the document is a
\* complete one, neither truncated nor a mixture of two texts (here: in the
\* runs in which no I/O fault has struck, so that only the interleaving of
\* the writes of save and reset is in play).
C18_LoadsSeeWholeDocument ==
    [][\A p \in Procs :
        (pc[p] \in {"save_load", "get_load"} /\ pc'[p] # pc[p] /\ faults' = 0)
            => fstate = "ok"
      ]_vars

\* C19: a save that ends with a storage error, raised by the load or by the
\* write, commits nothing: its job is left without a job_id and the document
\* holds the collection the save found (for a failed write: the list it had
\* loaded).
C19_FailedSaveCommitsNothing ==
    [][\A p \in Procs :
        (pc[p] \in {"save_load", "save_dump"} /\ pc'[p] = "idle"
                /\ returned'.out.ret = "raised") =>
            /\ returned'.job_id = 0
            /\ pc[p] = "save_load" => UNCHANGED <<fstate, jobs>>
            /\ pc[p] = "save_dump" =>
                    /\ fstate' = "ok"
                    /\ jobs' = SubSeq(storage[p], 1, Len(storage[p]) - 1)
      ]_vars

\* pcs of a thread inside get_item, update or remove
Reading ==
    {"get_acquire", "get_load", "update_acquire", "update_pass",
     "remove_acquire", "remove_pass"}

\* C20: no step of get_item, update or remove changes the document; update
\* and remove take the lock, release it and return nothing, whatever the
\* state they are called in.
C20_ReadersLeaveDocumentAlone ==
    [][\A p \in Procs :
        /\ ((pc[p] \in Reading \/ pc'[p] \in Reading) /\ pc'[p] # pc[p]) =>
                UNCHANGED <<fstate, jobs>>
        /\ (pc[p] \in {"update_pass", "remove_pass"} /\ pc'[p] = "idle") =>
                /\ held[lk[p]] = p /\ held'[lk[p]] = 0
                /\ returned'.who = p
                /\ returned'.op = (IF pc[p] = "update_pass" THEN "update"
                                                            ELSE "remove")
                /\ returned'.out = Nothing
      ]_vars

\* a remove has returned nothing and the job saved before it is still there
C20_Witness ==
    \E p \in Procs :
        /\ JustEnded(p, "remove")
        /\ returned.out = Nothing
        /\ fstate = "ok" /\ Len(jobs) = 1
        /\ Len(assigned) = 1

=============================================================================
